---------------------------- MODULE Spec2Model ----------------------------
(***************************************************************************)
(* Early-boot physical memory range allocator (src/src/balloc.c).          *)
(*                                                                         *)
(* Two interval sets, free_ranges and memory_map, are red-black trees of   *)
(* memory_node keyed on begin.  A tree is modelled by its in-order         *)
(* sequence of nodes, which is all that rb_prev, rb_next, rb_leftmost and  *)
(* rb_rightmost observe; a node is [id, begin, end] where id is the slot   *)
(* of balloc_nodes[] that holds it.  balloc_free_list is the sequence of   *)
(* unused slots, head first.  The begin/end left behind in a released slot *)
(* are not modelled: balloc_alloc_node's only caller overwrites both       *)
(* (lines 65-66) before anything reads them.                               *)
(*                                                                         *)
(* Addresses are AddrBits wide and arithmetic is modulo 2^AddrBits, as     *)
(* unsigned long long / uintptr_t arithmetic is modulo 2^64 in the source. *)
(***************************************************************************)
EXTENDS Integers, Sequences, FiniteSets, TLC

VARIABLES free_ranges, memory_map, balloc_free_list, pc, last

vars == <<free_ranges, memory_map, balloc_free_list, pc, last>>

(***************************************************************************)
(* Bounds of the model.                                                    *)
(***************************************************************************)
\* number of slots of balloc_nodes[] (BALLOC_MAX_RANGES, 128 in the source)
BALLOC_MAX_RANGES == 4
\* width of an address in bits (64 in the source)
AddrBits == 3
\* largest address handed to an operation as an argument
MaxAddr == 6
\* largest allocation size requested
MaxSize == 3
\* largest number of entries of a boot memory map
MaxEntries == 2
\* largest address a boot memory map or the boot module reports
MaxBootAddr == 3

Mod == 2 ^ AddrBits

Min(a, b) == IF a < b THEN a ELSE b

\* the addresses operations are called with
Addrs == 0 .. Min(MaxAddr, Mod - 1)

\* every address of the machine
Word == 0 .. (Mod - 1)

(***************************************************************************)
(* Node pool.                                                              *)
(***************************************************************************)
Slots == 1 .. BALLOC_MAX_RANGES

\* list_empty(&balloc_free_list) of the BUG_ON in balloc_alloc_node
pool_exhausted(pool) == pool = <<>>

\* balloc_alloc_node: the head of the free list, unlinked from it
balloc_alloc_node(pool) == [node |-> Head(pool), pool |-> Tail(pool)]

\* balloc_free_node: list_add puts the slot at the head of the free list
balloc_free_node(pool, id) == <<id>> \o pool

(***************************************************************************)
(* The tree primitives the source uses, on the in-order sequence.          *)
(***************************************************************************)
\* rb_erase: the sequence without its i-th node
rb_erase(tree, i) == SubSeq(tree, 1, i - 1) \o SubSeq(tree, i + 1, Len(tree))

\* rb_link + rb_insert: node becomes the i-th node in order
rb_insert(tree, i, node) ==
    SubSeq(tree, 1, i - 1) \o <<node>> \o SubSeq(tree, i, Len(tree))

\* rb_prev / rb_next as in-order indices, 0 for a null pointer
rb_prev(tree, i) == IF i > 1 THEN i - 1 ELSE 0
rb_next(tree, i) == IF i >= 1 /\ i < Len(tree) THEN i + 1 ELSE 0

\* the in-order index of the node held in slot id, 0 when it is not linked
IndexOf(tree, id) ==
    IF \E i \in 1 .. Len(tree) : tree[i].id = id
    THEN CHOOSE i \in 1 .. Len(tree) : tree[i].id = id
    ELSE 0

(***************************************************************************)
(* __balloc_add_range                                                      *)
(***************************************************************************)
\* lines 50-61: the descent goes right past every node with begin < from
\* and left of every other node, so the new node lands after the nodes
\* whose begin is smaller and before those whose begin is equal or larger.
\* (The in-order sequence is sorted by begin: see TreeSorted.)
add_position(tree, from) ==
    Cardinality({i \in 1 .. Len(tree) : tree[i].begin < from}) + 1

\* absorb_prev with line 73 testing prev->end > new->begin: a predecessor
\* that only touches the new node is left alone
absorb_prev_strict(tree, pool, i) ==
    LET p == rb_prev(tree, i) IN
    IF p # 0 /\ tree[p].end > tree[i].begin
    THEN [tree |-> rb_erase([tree EXCEPT ![i].begin = tree[p].begin,
                                ![i].end = IF tree[p].end > @
                                           THEN tree[p].end ELSE @], p),
          pool |-> balloc_free_node(pool, tree[p].id),
          idx |-> i - 1, merges |-> 1]
    ELSE [tree |-> tree, pool |-> pool, idx |-> i, merges |-> 0]

\* lines 71-79: absorb the in-order predecessor of the node at index i
absorb_prev(tree, pool, i) ==
    LET p == rb_prev(tree, i) IN
    IF p # 0 /\ tree[p].end >= tree[i].begin
    THEN LET prev == tree[p]
             new  == [tree[i] EXCEPT !.begin = prev.begin,
                         !.end = IF prev.end > @ THEN prev.end ELSE @]
         IN [tree |-> rb_erase([tree EXCEPT ![i] = new], p),
             pool |-> balloc_free_node(pool, prev.id),
             idx |-> i - 1, merges |-> 1]
    ELSE [tree |-> tree, pool |-> pool, idx |-> i, merges |-> 0]

\* absorb_next with line 83 testing next->begin < new->end: a successor
\* that only touches the new node is left alone
absorb_next_strict(tree, pool, i) ==
    LET n == rb_next(tree, i) IN
    IF n # 0 /\ tree[n].begin < tree[i].end
    THEN [tree |-> rb_erase([tree EXCEPT ![i].end = tree[n].end], n),
          pool |-> balloc_free_node(pool, tree[n].id),
          idx |-> i, merges |-> 1]
    ELSE [tree |-> tree, pool |-> pool, idx |-> i, merges |-> 0]

\* absorb_next with line 85 left out: the successor's slot is released
\* while the node stays linked in the tree
absorb_next_linked(tree, pool, i) ==
    LET n == rb_next(tree, i) IN
    IF n # 0 /\ tree[n].begin <= tree[i].end
    THEN [tree |-> [tree EXCEPT ![i].end = tree[n].end],
          pool |-> balloc_free_node(pool, tree[n].id),
          idx |-> i, merges |-> 1]
    ELSE [tree |-> tree, pool |-> pool, idx |-> i, merges |-> 0]

\* lines 81-87: absorb the in-order successor of the node at index i
absorb_next(tree, pool, i) ==
    LET n == rb_next(tree, i) IN
    IF n # 0 /\ tree[n].begin <= tree[i].end
    THEN LET next == tree[n]
             new  == [tree[i] EXCEPT !.end = next.end]
         IN [tree |-> rb_erase([tree EXCEPT ![i] = new], n),
             pool |-> balloc_free_node(pool, next.id),
             idx |-> i, merges |-> 1]
    ELSE [tree |-> tree, pool |-> pool, idx |-> i, merges |-> 0]

\* the result of __balloc_add_range: m nodes absorbed before r2
add_done(m, r2) ==
    [tree |-> r2.tree, pool |-> r2.pool, ok |-> TRUE,
     merges |-> m + r2.merges]

\* lines 81-88, on what absorb_prev left
add_finish(r1) == add_done(r1.merges, absorb_next(r1.tree, r1.pool, r1.idx))

\* lines 65-88: the slot a.node, filled with [from, to), is linked in as
\* the i-th node and its neighbours are absorbed
add_linked(tree, a, i, from, to) ==
    add_finish(absorb_prev(
        rb_insert(tree, i, [id |-> a.node, begin |-> from, end |-> to]),
        a.pool, i))

\* __balloc_add_range.  ok = FALSE: the BUG_ON of balloc_alloc_node fired
\* and the machine halted with the tree and the pool as they were.
balloc_add_range(tree, pool, from, to) ==
    IF pool_exhausted(pool)
    THEN [tree |-> tree, pool |-> pool, ok |-> FALSE, merges |-> 0]
    ELSE add_linked(tree, balloc_alloc_node(pool), add_position(tree, from),
                    from, to)

(***************************************************************************)
(* __balloc_remove_range                                                   *)
(***************************************************************************)
\* first_candidate with lines 99 and 131 testing node->begin > from: a
\* node that straddles the probe is passed over
first_candidate_by_begin(tree, probe) ==
    LET hits == {i \in 1 .. Len(tree) : tree[i].begin > probe} IN
    IF hits = {} THEN 0 ELSE CHOOSE i \in hits : \A j \in hits : i <= j

\* lines 93-105 (and 125-137): the descent records the last node with
\* end > probe on a path that goes left at such a node and right at any
\* other; on a sequence whose ends increase (see TreeSorted) that is the
\* first node in order with end > probe.  0 is the null pointer.
first_candidate(tree, probe) ==
    LET hits == {i \in 1 .. Len(tree) : tree[i].end > probe} IN
    IF hits = {} THEN 0 ELSE CHOOSE i \in hits : \A j \in hits : i <= j

\* keep_head with lines 112-113 left out: what lies before cut is dropped
keep_head_none(ptr, cut, t0, pool) ==
    [tree |-> t0, pool |-> pool, ok |-> TRUE, merges |-> 0]

\* lines 112-113 (and 148-149): what lies before cut of the erased node
\* ptr goes back into the tree t0
keep_head(ptr, cut, t0, pool) ==
    IF ptr.begin < cut
    THEN balloc_add_range(t0, pool, ptr.begin, cut)
    ELSE [tree |-> t0, pool |-> pool, ok |-> TRUE, merges |-> 0]

\* r with m more nodes absorbed
more_merges(m, r) == [r EXCEPT !.merges = @ + m]

\* lines 114-115 (and 150-151): what lies after cut of the erased node ptr
\* goes back into the tree, unless the machine has halted
keep_tail(ptr, cut, r1) ==
    IF r1.ok /\ ptr.end > cut
    THEN more_merges(r1.merges,
                     balloc_add_range(r1.tree, r1.pool, cut, ptr.end))
    ELSE r1

\* release with line 116 (and 152) left out: the slot is never given back
release_leak(id, r2) == r2

\* line 116 (and 152): the slot of the erased node goes back to the pool,
\* unless the machine has halted
release(id, r2) ==
    IF r2.ok THEN [r2 EXCEPT !.pool = balloc_free_node(r2.pool, id)] ELSE r2

\* remove_step with lines 114-115 left out: what lies after to is dropped
remove_step_no_tail(tree, pool, i, from, to) ==
    release(tree[i].id, keep_head(tree[i], from, rb_erase(tree, i), pool))

\* lines 111-116, one turn of the loop on the node at index i: erase it,
\* re-insert what survives before from and after to, release its slot.
\* A halt inside either __balloc_add_range leaves the slot unreleased.
remove_step(tree, pool, i, from, to) ==
    release(tree[i].id,
            keep_tail(tree[i], to,
                      keep_head(tree[i], from, rb_erase(tree, i), pool)))

\* the null pointer, as a node
NoNode == [id |-> 0, begin |-> 0, end |-> 0]

\* lines 107-118.  ptr is the slot the loop is at (0: null).  dangling is
\* set when the slot the loop advances to is no longer linked in the tree.
RECURSIVE remove_loop(_, _, _, _, _, _)
RECURSIVE remove_advance(_, _, _, _, _)

remove_loop(tree, pool, ptr, from, to, merges) ==
    LET i == IndexOf(tree, ptr) IN
    IF ptr = 0 \/ i = 0
    THEN [tree |-> tree, pool |-> pool, ok |-> TRUE, merges |-> merges,
          dangling |-> ptr # 0]
    ELSE IF ~(tree[i].begin < to)
    THEN [tree |-> tree, pool |-> pool, ok |-> TRUE, merges |-> merges,
          dangling |-> FALSE]
    ELSE remove_advance(remove_step(tree, pool, i, from, to),
                        IF rb_next(tree, i) = 0 THEN NoNode
                        ELSE tree[rb_next(tree, i)],
                        from, to, merges)

\* line 117: on to the node captured in line 108, unless the machine halted.
\* next is the captured node as it was in line 108; if its slot was
\* released since (and perhaps issued again) the pointer is stale.
remove_advance(r, next, from, to, merges) ==
    IF ~r.ok
    THEN [tree |-> r.tree, pool |-> r.pool, ok |-> FALSE,
          merges |-> merges + r.merges, dangling |-> FALSE]
    ELSE IF next.id # 0 /\ \A j \in DOMAIN r.tree : r.tree[j] # next
    THEN [tree |-> r.tree, pool |-> r.pool, ok |-> TRUE,
          merges |-> merges + r.merges, dangling |-> TRUE]
    ELSE remove_loop(r.tree, r.pool, next.id, from, to, merges + r.merges)

\* the slot of the node at index i, 0 for the null pointer
SlotAt(tree, i) == IF i = 0 THEN 0 ELSE tree[i].id

\* __balloc_remove_range
balloc_remove_range(tree, pool, from, to) ==
    remove_loop(tree, pool, SlotAt(tree, first_candidate(tree, from)),
                from, to, 0)

(***************************************************************************)
(* __balloc_alloc                                                          *)
(***************************************************************************)
\* bitwise and of two words
RECURSIVE BitAnd(_, _)
BitAnd(x, y) ==
    IF x = 0 \/ y = 0 THEN 0
    ELSE (x % 2) * (y % 2) + 2 * BitAnd(x \div 2, y \div 2)

\* line 143: mask = align - 1
mask_of(align) == (align + Mod - 1) % Mod

\* align_up with line 144 reading b & ~mask: the address is rounded down
align_down(b, align) == BitAnd(b, (Mod - 1) - mask_of(align))

\* line 144: (b + mask) & ~mask in AddrBits-wide unsigned arithmetic
align_up(b, align) ==
    BitAnd((b + mask_of(align)) % Mod, (Mod - 1) - mask_of(align))

\* lines 140-142: the node clipped to the window [from, to)
clip_begin(node, from) == IF node.begin > from THEN node.begin ELSE from
clip_end(node, to) == IF node.end < to THEN node.end ELSE to

\* line 146 for the node at index i
fits(tree, i, size, align, from, to) ==
    (align_up(clip_begin(tree[i], from), align) + size) % Mod
        <= clip_end(tree[i], to)

\* whether b + mask or addr + size left the word for the node at index i
wraps(tree, i, size, align, from) ==
    \/ clip_begin(tree[i], from) + mask_of(align) >= Mod
    \/ align_up(clip_begin(tree[i], from), align) + size >= Mod

\* lines 139-157 up to the decision: the index of the first node, from
\* index i on, that satisfies the request (0: the loop ran out), the
\* address found in it and whether any node looked at wrapped
RECURSIVE alloc_scan(_, _, _, _, _, _, _)
alloc_scan(tree, i, size, align, from, to, wrapped) ==
    IF i = 0 \/ ~(tree[i].begin < to)
    THEN [idx |-> 0, addr |-> to, wrapped |-> wrapped]
    ELSE IF fits(tree, i, size, align, from, to)
    THEN [idx |-> i,
          addr |-> align_up(clip_begin(tree[i], from), align),
          wrapped |-> wrapped \/ wraps(tree, i, size, align, from)]
    ELSE alloc_scan(tree, rb_next(tree, i), size, align, from, to,
                    wrapped \/ wraps(tree, i, size, align, from))

\* lines 147-152: carve [addr, addr + size) out of the node at index i
alloc_carve(tree, pool, i, addr, size) ==
    release(tree[i].id,
            keep_tail(tree[i], (addr + size) % Mod,
                      keep_head(tree[i], addr, rb_erase(tree, i), pool)))

\* line 153: return addr, with what the carving left
alloc_found(s, r) ==
    [tree |-> r.tree, pool |-> r.pool, ok |-> r.ok, ret |-> s.addr,
     found |-> TRUE, wrapped |-> s.wrapped, merges |-> r.merges]

\* lines 146-159 on the outcome s of the scan.  found tells which return
\* statement was taken: line 153 (TRUE) or line 159 (FALSE).
alloc_decide(tree, pool, size, to, s) ==
    IF s.idx = 0
    THEN [tree |-> tree, pool |-> pool, ok |-> TRUE, ret |-> to,
          found |-> FALSE, wrapped |-> s.wrapped, merges |-> 0]
    ELSE alloc_found(s, alloc_carve(tree, pool, s.idx, s.addr, size))

\* __balloc_alloc, on the tree free_ranges
balloc_alloc(tree, pool, size, align, from, to) ==
    alloc_decide(tree, pool, size, to,
                 alloc_scan(tree, first_candidate(tree, from), size, align,
                            from, to, FALSE))

(***************************************************************************)
(* Bootstrap: balloc_setup                                                 *)
(***************************************************************************)
\* text_phys_begin / bss_phys_end (lines 217-221): the kernel image; the
\* linker fixes both addresses, here one unit inside the reported memory
text_phys_begin == 1
bss_phys_end == 2

\* mboot_mmap_entry.type of an available region (line 233)
MMAP_AVAILABLE == 1

\* the addresses a boot memory map and the boot module report
BootAddrs == 0 .. Min(MaxBootAddr, Mod - 1)

\* the boot memory map entries: length > 0 and addr + length in range;
\* a type is available or something else
Entries ==
    {e \in [addr : BootAddrs, length : 1 .. MaxBootAddr,
            type : {MMAP_AVAILABLE, MMAP_AVAILABLE + 1}] :
        e.addr + e.length <= MaxBootAddr}

Maps == UNION {[1 .. n -> Entries] : n \in 0 .. MaxEntries}

\* what setup reads: bit 6 of mboot_info.flags (valid), the memory map and
\* the range initramfs() returns for the boot module
BootInfos ==
    {[valid |-> TRUE, mmap |-> m, module |-> r] :
        m \in Maps, r \in {p \in BootAddrs \X BootAddrs : p[1] <= p[2]}} \cup
    {[valid |-> FALSE, mmap |-> <<>>, module |-> <<0, 0>>]}

\* the boot of a machine whose memory is one available region, from
\* address 0 with and without a boot module, or from the kernel image on
RunInfos ==
    {[valid |-> TRUE,
      mmap |-> <<[addr |-> 0, length |-> Min(MaxAddr, Mod - 1),
                  type |-> MMAP_AVAILABLE]>>,
      module |-> r] : r \in {<<0, 0>>, <<bss_phys_end, bss_phys_end + 1>>}}
    \cup {[valid |-> TRUE,
            mmap |-> <<[addr |-> text_phys_begin,
                        length |-> Min(MaxAddr, Mod - 1) - text_phys_begin,
                        type |-> MMAP_AVAILABLE]>>,
            module |-> <<0, 0>>]}
    \cup {[valid |-> FALSE, mmap |-> <<>>, module |-> <<0, 0>>]}

NoInfo == [valid |-> TRUE, mmap |-> <<>>, module |-> <<0, 0>>]

\* balloc_setup_nodes: list_add of balloc_nodes[0 .. N-1] in turn leaves
\* the last slot at the head
balloc_setup_nodes == [i \in Slots |-> BALLOC_MAX_RANGES + 1 - i]

\* the trees and the pool of setup after an operation on memory_map
set_known(st, r) ==
    [st EXCEPT !.known = r.tree, !.pool = r.pool, !.ok = r.ok]

\* the same after an operation on free_ranges
set_free(st, r) ==
    [st EXCEPT !.free = r.tree, !.pool = r.pool, !.ok = r.ok]

\* one __balloc_add_range on memory_map within setup, unless the machine
\* has halted
add_known(st, from, to) ==
    IF ~st.ok THEN st
    ELSE set_known(st, balloc_add_range(st.known, st.pool, from, to))

\* one __balloc_add_range on free_ranges within setup
add_free(st, from, to) ==
    IF ~st.ok THEN st
    ELSE set_free(st, balloc_add_range(st.free, st.pool, from, to))

\* the trees and the pool of setup after a __balloc_remove_range
set_removed(st, r) ==
    [st EXCEPT !.free = r.tree, !.pool = r.pool, !.ok = r.ok,
               !.dangling = @ \/ r.dangling]

\* one __balloc_remove_range on free_ranges within setup
remove_free(st, from, to) ==
    IF ~st.ok THEN st
    ELSE set_removed(st, balloc_remove_range(st.free, st.pool, from, to))

\* lines 206-215: every entry goes into both trees, whatever its type
RECURSIVE add_entries(_, _, _)
add_entries(st, mmap, k) ==
    IF k > Len(mmap) THEN st
    ELSE LET rbegin == mmap[k].addr
             rend   == (rbegin + mmap[k].length) % Mod
         IN add_entries(add_free(add_known(st, rbegin, rend), rbegin, rend),
                        mmap, k + 1)

\* lines 226-236: the entries that are not available leave free_ranges
RECURSIVE remove_busy(_, _, _)
remove_busy(st, mmap, k) ==
    IF k > Len(mmap) THEN st
    ELSE LET rbegin == mmap[k].addr
             rend   == (rbegin + mmap[k].length) % Mod
         IN remove_busy(IF mmap[k].type # MMAP_AVAILABLE
                        THEN remove_free(st, rbegin, rend)
                        ELSE st,
                        mmap, k + 1)

\* lines 217-224: the kernel image goes into both trees
add_kernel(st) ==
    add_free(add_known(st, text_phys_begin, bss_phys_end),
             text_phys_begin, bss_phys_end)

\* lines 238-240: the boot module and the kernel image leave free_ranges
remove_images(st, module) ==
    remove_free(remove_free(st, module[1], module[2]),
                text_phys_begin, bss_phys_end)

\* balloc_parse_mmap, from the trees and the pool in st
balloc_parse_mmap(st, info) ==
    IF ~info.valid THEN [st EXCEPT !.ok = FALSE]
    ELSE remove_images(
             remove_busy(add_kernel(add_entries(st, info.mmap, 1)),
                         info.mmap, 1),
             info.module)

\* balloc_memory: the end of the rightmost node of memory_map
balloc_memory(known) == known[Len(known)].end

(***************************************************************************)
(* The state machine.                                                      *)
(*                                                                         *)
(* pc is where the single thread of control is: "boot" before              *)
(* balloc_setup, "ready" between calls, "returned" when a call has just    *)
(* come back (last holds what it was called with, what it returned and the *)
(* state it started from), "halted" after a BUG_ON.                        *)
(***************************************************************************)
Record(op, from, to, size, align, ret, found, wrapped, merges, dangling, info) ==
    [op |-> op, from |-> from, to |-> to, size |-> size, align |-> align,
     ret |-> ret, found |-> found, wrapped |-> wrapped, merges |-> merges,
     dangling |-> dangling, info |-> info,
     pre |-> [free |-> free_ranges, known |-> memory_map,
              pool |-> balloc_free_list]]

NoRecord ==
    [op |-> "none", from |-> 0, to |-> 0, size |-> 0, align |-> 0,
     ret |-> 0, found |-> FALSE, wrapped |-> FALSE, merges |-> 0,
     dangling |-> FALSE, info |-> NoInfo,
     pre |-> [free |-> <<>>, known |-> <<>>, pool |-> <<>>]]

\* static storage before balloc_setup runs
Init ==
    /\ free_ranges = <<>>
    /\ memory_map = <<>>
    /\ balloc_free_list = <<>>
    /\ pc = "boot"
    /\ last = NoRecord

\* the pool set up and both trees empty: where the interval set operations
\* are exercised from
InitSet ==
    /\ free_ranges = <<>>
    /\ memory_map = <<>>
    /\ balloc_free_list = balloc_setup_nodes
    /\ pc = "ready"
    /\ last = NoRecord

\* balloc_setup(info)
Setup(info) ==
    /\ pc = "boot"
    /\ \E st \in {balloc_parse_mmap(
                     [known |-> memory_map, free |-> free_ranges,
                      pool |-> balloc_setup_nodes, ok |-> TRUE,
                      dangling |-> FALSE], info)} :
          /\ memory_map' = st.known
          /\ free_ranges' = st.free
          /\ balloc_free_list' = st.pool
          /\ pc' = IF st.ok THEN "returned" ELSE "halted"
          /\ last' = Record("setup", 0, 0, 0, 0, 0, FALSE, FALSE, 0,
                            st.dangling, info)

\* __balloc_add_range(&free_ranges, from, to)
AddRange(from, to) ==
    /\ pc = "ready"
    /\ from < to
    /\ \E r \in {balloc_add_range(free_ranges, balloc_free_list, from, to)} :
          /\ free_ranges' = r.tree
          /\ balloc_free_list' = r.pool
          /\ pc' = IF r.ok THEN "returned" ELSE "halted"
          /\ last' = Record("add", from, to, 0, 0, 0, FALSE, FALSE,
                            r.merges, FALSE, NoInfo)
    /\ UNCHANGED memory_map

\* __balloc_remove_range(&free_ranges, from, to)
RemoveRange(from, to) ==
    /\ pc = "ready"
    /\ from <= to
    /\ \E r \in {balloc_remove_range(free_ranges, balloc_free_list,
                                     from, to)} :
          /\ free_ranges' = r.tree
          /\ balloc_free_list' = r.pool
          /\ pc' = IF r.ok THEN "returned" ELSE "halted"
          /\ last' = Record("remove", from, to, 0, 0, 0, FALSE, FALSE,
                            r.merges, r.dangling, NoInfo)
    /\ UNCHANGED memory_map

\* __balloc_remove_range(&free_ranges, from, to) called on the range the
\* __balloc_add_range call that has just returned was given; last keeps the
\* state from before the add
RemoveAdded ==
    /\ pc = "returned"
    /\ last.op = "add"
    /\ \E r \in {balloc_remove_range(free_ranges, balloc_free_list,
                                     last.from, last.to)} :
          /\ free_ranges' = r.tree
          /\ balloc_free_list' = r.pool
          /\ pc' = IF r.ok THEN "returned" ELSE "halted"
          /\ last' = [last EXCEPT !.op = "add_remove",
                                  !.merges = r.merges,
                                  !.dangling = r.dangling]
    /\ UNCHANGED memory_map

\* the alignments requested: the powers of two of the word
Aligns == {2 ^ k : k \in 0 .. (AddrBits - 1)}

\* __balloc_alloc(size, align, from, to)
Alloc(size, align, from, to) ==
    /\ pc = "ready"
    /\ \E r \in {balloc_alloc(free_ranges, balloc_free_list, size, align,
                              from, to)} :
          /\ free_ranges' = r.tree
          /\ balloc_free_list' = r.pool
          /\ pc' = IF r.ok THEN "returned" ELSE "halted"
          /\ last' = Record("alloc", from, to, size, align, r.ret, r.found,
                            r.wrapped, r.merges, FALSE, NoInfo)
    /\ UNCHANGED memory_map

\* balloc_free(begin, end)
Free(begin, end) ==
    /\ pc = "ready"
    /\ begin < end
    /\ \E r \in {balloc_add_range(free_ranges, balloc_free_list,
                                  begin, end)} :
          /\ free_ranges' = r.tree
          /\ balloc_free_list' = r.pool
          /\ pc' = IF r.ok THEN "returned" ELSE "halted"
          /\ last' = Record("free", begin, end, 0, 0, 0, FALSE, FALSE,
                            r.merges, FALSE, NoInfo)
    /\ UNCHANGED memory_map

\* balloc_free(a, a + size) called on the range the __balloc_alloc call
\* that has just returned handed out; last keeps the state from before the
\* alloc.  The caller took the result for an address (it is not to) and
\* a + size is an address too.
FreeAllocated ==
    /\ pc = "returned"
    /\ last.op = "alloc"
    /\ last.ret # last.to
    /\ last.ret + last.size < Mod
    /\ \E r \in {balloc_add_range(free_ranges, balloc_free_list,
                                  last.ret, last.ret + last.size)} :
          /\ free_ranges' = r.tree
          /\ balloc_free_list' = r.pool
          /\ pc' = IF r.ok THEN "returned" ELSE "halted"
          /\ last' = [last EXCEPT !.op = "alloc_free",
                                  !.merges = r.merges]
    /\ UNCHANGED memory_map

\* The slots are only names: the source never compares or orders two
\* memory_node pointers, so states that differ by a renumbering of the
\* slots behave alike.  Slot id is renumbered by where it first occurs in
\* memory_map, then free_ranges, then balloc_free_list.
SlotOrder == [i \in DOMAIN memory_map |-> memory_map[i].id] \o
             [i \in DOMAIN free_ranges |-> free_ranges[i].id] \o
             balloc_free_list

Renumber(id) ==
    CHOOSE i \in DOMAIN SlotOrder :
        SlotOrder[i] = id /\ \A j \in 1 .. (i - 1) : SlotOrder[j] # id

\* the caller takes the result and goes on; the slots are renumbered
Return ==
    /\ pc = "returned"
    /\ pc' = "ready"
    /\ last' = NoRecord
    /\ memory_map' = [i \in DOMAIN memory_map |->
                         [memory_map[i] EXCEPT !.id = Renumber(@)]]
    /\ free_ranges' = [i \in DOMAIN free_ranges |->
                          [free_ranges[i] EXCEPT !.id = Renumber(@)]]
    /\ balloc_free_list' = [i \in DOMAIN balloc_free_list |->
                               Renumber(balloc_free_list[i])]

\* the interval set operations on a set that starts empty
NextSet ==
    \/ \E from \in Addrs, to \in Addrs : AddRange(from, to)
    \/ \E from \in Addrs, to \in Addrs : RemoveRange(from, to)
    \/ RemoveAdded
    \/ Return

SpecSet == InitSet /\ [][NextSet]_vars

\* setup alone, on every boot memory map
NextBoot == pc = "boot" /\ \E info \in BootInfos : Setup(info)

SpecBoot == Init /\ [][NextBoot]_vars

\* the allocator from boot on: setup, then any calls of __balloc_alloc and
\* balloc_free
Next ==
    \/ \E info \in RunInfos : Setup(info)
    \/ \E size \in 1 .. MaxSize, align \in Aligns, from \in Addrs,
          to \in Addrs : Alloc(size, align, from, to)
    \/ \E begin \in Addrs, end \in Addrs : Free(begin, end)
    \/ FreeAllocated
    \/ Return

Spec == Init /\ [][Next]_vars

\* the allocator used as meant: setup, then calls of __balloc_alloc on
\* windows with from < to, each range handed out released by balloc_free
\* or kept
NextOwned ==
    \/ \E info \in RunInfos : Setup(info)
    \/ \E size \in 1 .. MaxSize, align \in Aligns, from \in Addrs,
          to \in Addrs : from < to /\ Alloc(size, align, from, to)
    \/ FreeAllocated
    \/ Return

SpecOwned == Init /\ [][NextOwned]_vars

(***************************************************************************)
(* What the properties are stated in.                                      *)
(***************************************************************************)
\* the addresses of [from, to)
Interval(from, to) == {a \in Word : from <= a /\ a < to}

\* the addresses the ranges of a tree cover
Cover(tree) ==
    {a \in Word : \E i \in DOMAIN tree :
        tree[i].begin <= a /\ a < tree[i].end}

\* the ranges of a tree in key order
Ranges(tree) == [i \in DOMAIN tree |-> <<tree[i].begin, tree[i].end>>]

\* every range is non-empty and ends strictly before the next begins
WellFormed(tree) ==
    \A i \in DOMAIN tree :
        /\ tree[i].begin < tree[i].end
        /\ i < Len(tree) => tree[i].end < tree[i + 1].begin

\* What add_position and first_candidate rest on: in both trees the begins
\* and the ends increase along the in-order sequence, and no loop ever
\* advanced to a node that had left its tree.
TreeSorted ==
    /\ \A t \in {free_ranges, memory_map} : \A i \in DOMAIN t :
          i < Len(t) => /\ t[i].begin <= t[i + 1].begin
                        /\ t[i].end <= t[i + 1].end
    /\ ~last.dangling

\* the call that has just returned
Returned(op) == pc = "returned" /\ last.op = op

\* whether an address satisfies the request on the ranges of tree: a
\* multiple of align inside the window with [a, a + size) in one range
FitsAt(tree, a, size, align, from, to) ==
    /\ a % align = 0
    /\ from <= a
    /\ a + size <= to
    /\ \E i \in DOMAIN tree : tree[i].begin <= a /\ a + size <= tree[i].end

\* what a boot memory map reports: the union of its entries and the kernel
\* image
Reported(info) ==
    UNION {Interval(info.mmap[k].addr,
                    info.mmap[k].addr + info.mmap[k].length) :
           k \in DOMAIN info.mmap}
    \cup Interval(text_phys_begin, bss_phys_end)

\* what must not be free after setup: the entries that are not available,
\* the kernel image and the boot module
Busy(info) ==
    UNION {Interval(info.mmap[k].addr,
                    info.mmap[k].addr + info.mmap[k].length) :
           k \in {j \in DOMAIN info.mmap :
                     info.mmap[j].type # MMAP_AVAILABLE}}
    \cup Interval(text_phys_begin, bss_phys_end)
    \cup Interval(info.module[1], info.module[2])

\* the number of slots linked in a tree or on the free list
SlotsHeld == Len(memory_map) + Len(free_ranges) + Len(balloc_free_list)

(***************************************************************************)
(* C1.  After any sequence of add_range (from < to) and remove_range       *)
(* (from <= to) calls on a set that starts empty, every stored range has   *)
(* begin < end and ends strictly before the next range in key order        *)
(* begins: no two ranges overlap or touch.                                 *)
(***************************************************************************)
C1_Disjoint == WellFormed(free_ranges)

\* an add_range that absorbed both neighbours has returned and ranges
\* remain on either side of a gap
C1_Witness ==
    /\ Returned("add")
    /\ last.merges = 2
    /\ Len(free_ranges) >= 2

(***************************************************************************)
(* C2.  add_range(S, from, to) leaves the set covering exactly what S      *)
(* covered together with [from, to), however many stored ranges [from, to) *)
(* overlaps or touches.                                                    *)
(***************************************************************************)
C2_AddExact ==
    Returned("add") =>
        Cover(free_ranges) =
            Cover(last.pre.free) \cup Interval(last.from, last.to)

(***************************************************************************)
(* C3.  remove_range(S, from, to) with from <= to leaves the set covering  *)
(* exactly what S covered minus [from, to): the result is a disjoint,      *)
(* non-touching set, no stored range intersects [from, to), a range that   *)
(* strictly contains a non-empty [from, to) has become [begin, from) and   *)
(* [to, end), and the ranges that did not intersect [from, to) are stored  *)
(* as before.                                                              *)
(***************************************************************************)
C3_RemoveExact ==
    Returned("remove") =>
        /\ WellFormed(free_ranges)
        /\ Cover(free_ranges) =
               Cover(last.pre.free) \ Interval(last.from, last.to)
        /\ \A i \in DOMAIN last.pre.free :
              LET n == last.pre.free[i]
                  stored == {Ranges(free_ranges)[j] : j \in DOMAIN free_ranges}
              IN /\ (n.end <= last.from \/ last.to <= n.begin
                        \/ last.from = last.to)
                       => <<n.begin, n.end>> \in stored
                 /\ (n.begin < last.from /\ last.from < last.to
                        /\ last.to < n.end)
                       => /\ <<n.begin, last.from>> \in stored
                          /\ <<last.to, n.end>> \in stored

\* a remove_range that split one range in two, with another range stored
\* beside it, has returned
C3_Witness ==
    /\ Returned("remove")
    /\ last.from < last.to
    /\ Len(last.pre.free) >= 2
    /\ \E i \in DOMAIN last.pre.free :
          /\ last.pre.free[i].begin < last.from
          /\ last.to < last.pre.free[i].end

(***************************************************************************)
(* C4.  When alloc(size, align, from, to), with size > 0, align a power of *)
(* two and no wrap-around in its arithmetic, returns an address a other    *)
(* than to: a is a multiple of align, from <= a, a + size <= to, all of    *)
(* [a, a + size) was free before the call, and afterwards free covers      *)
(* exactly what it covered before minus [a, a + size).                     *)
(***************************************************************************)
C4_AllocSound ==
    (Returned("alloc") /\ last.size > 0 /\ ~last.wrapped
        /\ last.ret # last.to) =>
        /\ last.ret % last.align = 0
        /\ last.from <= last.ret
        /\ last.ret + last.size <= last.to
        /\ Interval(last.ret, last.ret + last.size) \subseteq
               Cover(last.pre.free)
        /\ Cover(free_ranges) =
               Cover(last.pre.free) \
                   Interval(last.ret, last.ret + last.size)

\* an alloc has returned an address inside a range, leaving both the
\* alignment gap before it and the tail after it free
C4_Witness ==
    /\ Returned("alloc")
    /\ ~last.wrapped
    /\ last.ret # last.to
    /\ last.align > 1
    /\ \E i \in DOMAIN last.pre.free :
          /\ last.pre.free[i].begin < last.ret
          /\ last.ret + last.size < last.pre.free[i].end
          /\ last.pre.free[i].begin >= last.from

(***************************************************************************)
(* C5.  For size > 0, align a power of two and from < to, alloc returns    *)
(* the value to if and only if no address a is a multiple of align with    *)
(* from <= a, a + size <= to and [a, a + size) inside one range of free;   *)
(* a call that found an address never returns to.                          *)
(***************************************************************************)
C5_SentinelIff ==
    (Returned("alloc") /\ last.size > 0 /\ last.from < last.to) =>
        /\ (last.ret = last.to) <=>
               ~\E a \in Word : FitsAt(last.pre.free, a, last.size,
                                       last.align, last.from, last.to)
        /\ last.found => last.ret # last.to

(***************************************************************************)
(* C6.  When alloc returns to, free, known and the node pool are exactly   *)
(* as they were before the call.                                           *)
(***************************************************************************)
C6_FailureFrame ==
    (Returned("alloc") /\ last.ret = last.to) =>
        /\ free_ranges = last.pre.free
        /\ memory_map = last.pre.known
        /\ balloc_free_list = last.pre.pool

(***************************************************************************)
(* C7.  After setup completes, for every boot memory map (any number of    *)
(* entries of length > 0, in any order, overlapping in any way), free      *)
(* holds no address of an entry that is not available, of the kernel image *)
(* or of the boot module.                                                  *)
(***************************************************************************)
C7_FreeExcludesBusy ==
    Returned("setup") => Cover(free_ranges) \cap Busy(last.info) = {}

\* setup has completed on a map that lists an entry that is not available
\* before an available entry that overlaps it, and memory is left free
C7_Witness ==
    /\ Returned("setup")
    /\ free_ranges # <<>>
    /\ \E j \in DOMAIN last.info.mmap, k \in DOMAIN last.info.mmap :
          LET r == last.info.mmap[j]
              a == last.info.mmap[k]
          IN /\ j < k
             /\ r.type # MMAP_AVAILABLE
             /\ a.type = MMAP_AVAILABLE
             /\ Interval(r.addr, r.addr + r.length) \cap
                    Interval(a.addr, a.addr + a.length) # {}

(***************************************************************************)
(* C8.  After setup completes, for every boot memory map, known covers     *)
(* exactly the union of the entries [address, address + length) and the    *)
(* kernel image, whatever the types and the order of the entries.          *)
(***************************************************************************)
C8_KnownExact ==
    Returned("setup") => Cover(memory_map) = Reported(last.info)

(***************************************************************************)
(* C9.  After setup, memory_upper_bound() returns the largest of           *)
(* address + length over the entries and the kernel image end: the         *)
(* smallest address above all reported memory.                             *)
(***************************************************************************)
C9_UpperBound ==
    Returned("setup") =>
        /\ balloc_memory(memory_map) - 1 \in Reported(last.info)
        /\ \A a \in Reported(last.info) : a < balloc_memory(memory_map)

(***************************************************************************)
(* C10.  From the end of pool initialisation on, in every reachable state  *)
(* of setup, add_range, remove_range, alloc and free, the nodes linked     *)
(* into known, those linked into free and those on the pool free list     *)
(* number N together.                                                      *)
(***************************************************************************)
C10_AtAllTimes == pc # "boot" => SlotsHeld = BALLOC_MAX_RANGES

\* C10 as amended: the count is N whenever no call is under way, that is
\* after every call that returned; a call that halted on an empty pool
\* inside __balloc_remove_range or __balloc_alloc stops with the erased
\* node in neither tree and not on the free list.
C10_Conserved ==
    pc \in {"ready", "returned"} => SlotsHeld = BALLOC_MAX_RANGES

\* an alloc that split a range in two has returned: two slots taken, one
\* given back
C10_Witness ==
    /\ Returned("alloc")
    /\ last.found
    /\ Len(free_ranges) = Len(last.pre.free) + 1
    /\ Len(balloc_free_list) + 1 = Len(last.pre.pool)

\* the ranges of tree that end where [from, to) begins or begin where it
\* ends
Touching(tree, from, to) ==
    {i \in DOMAIN tree : tree[i].end = from \/ tree[i].begin = to}

\* [from, to) shares no address with a range of tree
Apart(tree, from, to) == Cover(tree) \cap Interval(from, to) = {}

(***************************************************************************)
(* C11.  For a disjoint, non-adjacent set S and a range [b, e), b < e,     *)
(* that overlaps no range of S (it may touch ranges of S),                 *)
(* add_range(S, b, e) followed by remove_range(S, b, e) leaves the         *)
(* in-order list of ranges that S had before the two calls.                *)
(***************************************************************************)
C11_AddRemoveRestores ==
    (Returned("add_remove") /\ WellFormed(last.pre.free)
        /\ Apart(last.pre.free, last.from, last.to)) =>
        Ranges(free_ranges) = Ranges(last.pre.free)

\* the two calls have returned for a range that filled the gap between two
\* stored ranges exactly
C11_Witness ==
    /\ Returned("add_remove")
    /\ Apart(last.pre.free, last.from, last.to)
    /\ Cardinality(Touching(last.pre.free, last.from, last.to)) = 2
    /\ Len(free_ranges) = 2

(***************************************************************************)
(* C12.  When add_range inserts [from, to) that overlaps no stored range   *)
(* and from is the end of a stored range and/or to is the begin of one,    *)
(* the touching ranges and [from, to) are replaced by the one range that   *)
(* spans them, the other ranges stay, and the nodes of the absorbed ranges *)
(* are back on the pool free list.                                         *)
(***************************************************************************)
C12_TouchingMerge ==
    (Returned("add") /\ Apart(last.pre.free, last.from, last.to)
        /\ Touching(last.pre.free, last.from, last.to) # {}) =>
        LET pre  == last.pre.free
            hit  == Touching(pre, last.from, last.to)
            lo   == IF \E i \in hit : pre[i].end = last.from
                    THEN (CHOOSE i \in hit : pre[i].end = last.from)
                    ELSE 0
            hi   == IF \E i \in hit : pre[i].begin = last.to
                    THEN (CHOOSE i \in hit : pre[i].begin = last.to)
                    ELSE 0
            span == <<IF lo # 0 THEN pre[lo].begin ELSE last.from,
                      IF hi # 0 THEN pre[hi].end ELSE last.to>>
            rest == {Ranges(pre)[i] : i \in DOMAIN pre \ hit}
        IN /\ {Ranges(free_ranges)[j] : j \in DOMAIN free_ranges} =
                  rest \cup {span}
           /\ Len(free_ranges) = Len(pre) + 1 - Cardinality(hit)
           /\ WellFormed(free_ranges)
           /\ \A i \in hit :
                 \E k \in DOMAIN balloc_free_list :
                    balloc_free_list[k] = pre[i].id
           /\ Len(balloc_free_list) =
                  Len(last.pre.pool) - 1 + Cardinality(hit)

\* an add_range has returned after merging with a range that ends where
\* the new one begins, with another range stored apart
C12_Witness ==
    /\ Returned("add")
    /\ Apart(last.pre.free, last.from, last.to)
    /\ \E i \in DOMAIN last.pre.free : last.pre.free[i].end = last.from
    /\ Len(free_ranges) >= 2

(***************************************************************************)
(* C15.  In every remove_range(S, from, to) with from <= to on a disjoint, *)
(* non-adjacent set, no re-insertion of a surviving fragment absorbs a     *)
(* predecessor or a successor: no merging happens inside remove_range.     *)
(***************************************************************************)
C15_NoMergeInRemove ==
    (Returned("remove") /\ WellFormed(last.pre.free)) => last.merges = 0

(***************************************************************************)
(* C16.  remove_range(S, x, x) leaves the in-order list of ranges of the   *)
(* set exactly as it was before the call, for every x: inside a stored     *)
(* range, at the begin or the end of one, or outside all of them.          *)
(***************************************************************************)
C16_EmptyRemoveNoOp ==
    (pc \in {"returned", "halted"} /\ last.op = "remove"
        /\ last.from = last.to) =>
        /\ pc = "returned"
        /\ Ranges(free_ranges) = Ranges(last.pre.free)

\* the slots linked in known, linked in free and on the pool free list,
\* one after the other
LinkedSlots == [i \in DOMAIN memory_map |-> memory_map[i].id] \o
               [i \in DOMAIN free_ranges |-> free_ranges[i].id] \o
               balloc_free_list

(***************************************************************************)
(* C17.  No node is at once on the pool free list and linked in a tree, or *)
(* linked in both trees, and a released node is not used again before it   *)
(* is issued again: the successor that remove_range captures before it     *)
(* erases the current range is still linked in the set, untouched, when    *)
(* the loop advances to it.                                                *)
(***************************************************************************)
C17_NoStaleNode ==
    /\ \A i \in DOMAIN LinkedSlots, j \in DOMAIN LinkedSlots :
          LinkedSlots[i] = LinkedSlots[j] => i = j
    /\ \A i \in DOMAIN LinkedSlots : LinkedSlots[i] \in Slots
    /\ ~last.dangling

\* a remove_range has returned that cut a range, kept what lay before from
\* and went on to the successor it had captured, which it removed too
C17_Witness ==
    /\ Returned("remove")
    /\ \E i \in DOMAIN last.pre.free :
          /\ i < Len(last.pre.free)
          /\ last.pre.free[i].begin < last.from
          /\ last.from < last.pre.free[i].end
          /\ last.pre.free[i + 1].begin < last.to

\* the lowest address that satisfies the request on the ranges of tree,
\* Mod if there is none
LowestFit(tree, size, align, from, to) ==
    LET ok == {a \in Word : FitsAt(tree, a, size, align, from, to)} IN
    IF ok = {} THEN Mod ELSE CHOOSE a \in ok : \A x \in ok : a <= x

(***************************************************************************)
(* C13.  After setup and after any sequence of alloc calls and of free     *)
(* calls that release only ranges alloc has handed out, every address      *)
(* that free covers is covered by known.                                   *)
(***************************************************************************)
C13_FreeWithinKnown ==
    pc \in {"ready", "returned"} =>
        Cover(free_ranges) \subseteq Cover(memory_map)

(***************************************************************************)
(* C14.  A successful alloc(size, align, from, to), on a window with       *)
(* from < to (no other window can hold a range), returns the lowest        *)
(* address that fits: the least x that is a multiple of align with         *)
(* from <= x, x + size <= to and [x, x + size) free.                       *)
(***************************************************************************)
C14_LowestFit ==
    (Returned("alloc") /\ last.size > 0 /\ last.from < last.to
        /\ last.found) =>
        last.ret = LowestFit(last.pre.free, last.size, last.align,
                             last.from, last.to)

(***************************************************************************)
(* C18.  A successful alloc(size, align, from, to), from < to, returning   *)
(* a, followed at once by free(a, a + size), leaves free with the in-order *)
(* list of ranges it had before the alloc and the pool free list with as   *)
(* many nodes as before.                                                   *)
(***************************************************************************)
C18_AllocFreeRestores ==
    (pc \in {"returned", "halted"} /\ last.op = "alloc_free"
        /\ last.from < last.to) =>
        /\ pc = "returned"
        /\ Ranges(free_ranges) = Ranges(last.pre.free)
        /\ Len(balloc_free_list) = Len(last.pre.pool)

(***************************************************************************)
(* C20.  With w-bit addresses and sizes and from < to, alloc never reports *)
(* success for a request that does not fit: an address a it returns, other *)
(* than to, has                                                            *)
(* from <= a and a + size <= to in true, non-wrapping arithmetic.          *)
(***************************************************************************)
C20_NoWrapSuccess ==
    (Returned("alloc") /\ last.size > 0 /\ last.from < last.to
        /\ last.ret # last.to) =>
        /\ last.from <= last.ret
        /\ last.ret + last.size <= last.to

\* the number of ranges a disjoint, non-adjacent set needs to cover the
\* addresses A: one for each address of A whose predecessor is not in A
Components(A) == Cardinality({a \in A : (a - 1) \notin A})

\* what the set free is to cover once the call recorded in last is done
Intended ==
    LET S   == Cover(last.pre.free)
        fit == LowestFit(last.pre.free, last.size, last.align, last.from,
                         last.to)
    IN CASE last.op \in {"add", "free"} ->
                S \cup Interval(last.from, last.to)
         [] last.op = "remove" -> S \ Interval(last.from, last.to)
         [] last.op = "alloc" ->
                IF fit < Mod THEN S \ Interval(fit, fit + last.size) ELSE S
         [] OTHER -> S

(***************************************************************************)
(* C19.  add_range, remove_range, alloc and free reach the fatal           *)
(* pool-exhaustion halt only when the result of the operation needs more   *)
(* than N nodes in known and free together: an operation whose resulting   *)
(* sets fit in N nodes (an add that merges into a neighbour while the free *)
(* list is empty, a split with exactly one slot free) completes.  Stated   *)
(* for calls with from < to (from <= to for remove_range) whose arithmetic *)
(* does not wrap around.                                                   *)
(***************************************************************************)
C19_HaltOnlyWhenFull ==
    (pc = "halted" /\ last.op \in {"add", "remove", "alloc", "free"}
        /\ last.from <= last.to /\ ~last.wrapped
        /\ (last.op = "alloc" => last.from < last.to)) =>
        Len(last.pre.known) + Components(Intended) > BALLOC_MAX_RANGES

=============================================================================
